---- MODULE Spec2Model ----
(***************************************************************************)
(* Grid diagrams and their Cromwell moves (src/include/diagram.h).         *)
(*                                                                         *)
(* A diagram is the 2D array `data` of the class Diagram.  Rows and cells  *)
(* are sequences, so the C++ index k is the TLA+ index k + 1; every        *)
(* argument of an operation keeps the 0-based value the code receives.     *)
(***************************************************************************)
EXTENDS Integers, Sequences, FiniteSets

\* Largest grid the moves are explored on: a stabilization is attempted only
\* on a grid smaller than this.
MaxSize == 4

\* Largest grid a behaviour starts from.
InitSize == 4

VARIABLES data, last, curve, built, knot, app

vars == <<data, last, curve, built, knot, app>>

----------------------------------------------------------------------------
\* enum class Entry, Direction, Axis, Cardinal

Entry == {"X", "O", "BLANK"}

Direction == {"U", "D", "L", "R"}

Axis == {"ROW", "COL"}

Cardinal == {"NW", "SW", "NE", "SE"}

----------------------------------------------------------------------------
\* std::vector helpers, with the 0-based positions of the code

\* v.insert(v.begin() + k, e)
InsertAt(v, k, e) == SubSeq(v, 1, k) \o <<e>> \o SubSeq(v, k + 1, Len(v))

\* v.erase(v.begin() + k)
EraseAt(v, k) == SubSeq(v, 1, k) \o SubSeq(v, k + 2, Len(v))

\* v[k] = e
SetAt(v, k, e) == [v EXCEPT ![k + 1] = e]

\* std::count(v.begin(), v.end(), e)
Count(v, e) == Cardinality({k \in 1..Len(v) : v[k] = e})

\* std::distance(v.begin(), std::find(v.begin(), v.end(), e)): the size of v
\* when e does not occur
FindFirst(v, e) ==
    IF \E k \in 1..Len(v) : v[k] = e
    THEN (CHOOSE k \in 1..Len(v) : v[k] = e /\ \A m \in 1..(k - 1) : v[m] # e) - 1
    ELSE Len(v)

----------------------------------------------------------------------------
\* Read operations of Diagram

get_size(d) == Len(d)

\* validate_index: TRUE when the index is accepted (no exception)
validate_index(d, index) == ~(index < 0 \/ index > get_size(d))

get_row(d, row_index) == d[row_index + 1]

get_col(d, col_index) == [r \in 1..get_size(d) |-> d[r][col_index + 1]]

find_index_of_first(d, axis, index, entry) ==
    IF axis = "ROW"
    THEN FindFirst(get_row(d, index), entry)
    ELSE FindFirst(get_col(d, index), entry)

find_indices_of_xo(d, axis, index) ==
    <<find_index_of_first(d, axis, index, "X"),
      find_index_of_first(d, axis, index, "O")>>

\* The pair ordered as are_interleaved orders it (std::swap when start > end)
Ordered(p) == IF p[1] > p[2] THEN <<p[2], p[1]>> ELSE p

\* are_interleaved without its second test: a span that contains the other is
\* recognised only when it is the span of b
are_interleaved_OneWay(d, axis, a, b) ==
    LET sa == Ordered(find_indices_of_xo(d, axis, a))
        sb == Ordered(find_indices_of_xo(d, axis, b))
    IN  IF sa[1] > sb[1] /\ sa[2] < sb[2] THEN FALSE
        ELSE IF sa[2] < sb[1] THEN FALSE
        ELSE IF sa[1] > sb[2] THEN FALSE
        ELSE TRUE

\* are_interleaved with >= and <= in its two containment tests
are_interleaved_Inclusive(d, axis, a, b) ==
    LET sa == Ordered(find_indices_of_xo(d, axis, a))
        sb == Ordered(find_indices_of_xo(d, axis, b))
    IN  IF sa[1] >= sb[1] /\ sa[2] <= sb[2] THEN FALSE
        ELSE IF sb[1] >= sa[1] /\ sb[2] <= sa[2] THEN FALSE
        ELSE IF sa[2] < sb[1] THEN FALSE
        ELSE IF sa[1] > sb[2] THEN FALSE
        ELSE TRUE

are_interleaved(d, axis, a, b) ==
    LET sa == Ordered(find_indices_of_xo(d, axis, a))
        sb == Ordered(find_indices_of_xo(d, axis, b))
        a_start == sa[1]
        a_end == sa[2]
        b_start == sb[1]
        b_end == sb[2]
    IN  IF a_start > b_start /\ a_end < b_end THEN FALSE
        ELSE IF b_start > a_start /\ b_end < a_end THEN FALSE
        ELSE IF a_end < b_start THEN FALSE
        ELSE IF a_start > b_end THEN FALSE
        ELSE IF b_end < a_start THEN FALSE
        ELSE IF b_start > a_end THEN FALSE
        ELSE TRUE

\* validate: TRUE when the constructor accepts the table
validate(d) ==
    \A i \in 0..(get_size(d) - 1) :
        LET row == get_row(d, i)
            col == get_col(d, i)
        IN  /\ Len(row) = get_size(d)
            /\ Len(col) = get_size(d)
            /\ Count(row, "X") = 1
            /\ Count(row, "O") = 1
            /\ Count(col, "X") = 1
            /\ Count(col, "O") = 1

----------------------------------------------------------------------------
\* Write helpers of Diagram

exchange_rows(d, a, b) == [d EXCEPT ![a + 1] = d[b + 1], ![b + 1] = d[a + 1]]

exchange_cols(d, a, b) ==
    [r \in 1..get_size(d) |->
        [d[r] EXCEPT ![a + 1] = d[r][b + 1], ![b + 1] = d[r][a + 1]]]

----------------------------------------------------------------------------
\* The four Cromwell moves.  Each returns the grid after the call and what the
\* call raised: "ok" (it returned), a CromwellException named after the
\* error it reports, "InvalidIndex" (the std::runtime_error of
\* validate_index) or "Crash" (the process died in an out-of-range read).

Result(d, r) == [data |-> d, res |-> r]

CromwellErrors == {"NoAdjacent", "Interleaved", "NotFound", "OutOfBounds", "InvalidSubgrid"}

\* apply_translation whose L case reads row[0] after the erase
apply_translation_ReadAfterErase(d, direction) ==
    CASE direction = "U" -> Result(Append(EraseAt(d, 0), get_row(d, 0)), "ok")
      [] direction = "D" ->
            Result(InsertAt(EraseAt(d, get_size(d) - 1), 0, get_row(d, get_size(d) - 1)), "ok")
      [] direction = "L" ->
            Result([r \in 1..get_size(d) |->
                        Append(EraseAt(d[r], 0), EraseAt(d[r], 0)[1])], "ok")
      [] direction = "R" ->
            Result([r \in 1..get_size(d) |->
                        InsertAt(EraseAt(d[r], Len(d[r]) - 1), 0,
                                 d[r][get_size(d)])], "ok")

apply_translation(d, direction) ==
    CASE direction = "U" ->
            LET row == get_row(d, 0)
            IN  Result(Append(EraseAt(d, 0), row), "ok")
      [] direction = "D" ->
            LET row == get_row(d, get_size(d) - 1)
            IN  Result(InsertAt(EraseAt(d, get_size(d) - 1), 0, row), "ok")
      [] direction = "L" ->
            Result([r \in 1..get_size(d) |->
                        Append(EraseAt(d[r], 0), d[r][1])], "ok")
      [] direction = "R" ->
            Result([r \in 1..get_size(d) |->
                        InsertAt(EraseAt(d[r], Len(d[r]) - 1), 0,
                                 d[r][get_size(d)])], "ok")

\* Outcomes of reading data[N] (or row[N]), one past the end of the vector:
\* the read returns some value and the call goes on, or the process dies.
OutOfRangeRead == {"garbage", "crash"}

\* apply_commutation that exchanges before it tests for interleaving
apply_commutation_SwapFirst(d, axis, start_index, ub) ==
    IF start_index = get_size(d) - 1
    THEN Result(d, "NoAdjacent")
    ELSE IF ~validate_index(d, start_index)
    THEN Result(d, "InvalidIndex")
    ELSE IF start_index = get_size(d)
    THEN IF ub = "crash" THEN Result(d, "Crash") ELSE Result(d, "InvalidIndex")
    ELSE LET swapped == IF axis = "ROW"
                        THEN exchange_rows(d, start_index + 0, start_index + 1)
                        ELSE exchange_cols(d, start_index + 0, start_index + 1)
         IN  IF ~are_interleaved(d, axis, start_index + 0, start_index + 1)
             THEN Result(swapped, "ok")
             ELSE Result(swapped, "Interleaved")

apply_commutation(d, axis, start_index, ub) ==
    IF start_index = get_size(d) - 1
    THEN Result(d, "NoAdjacent")
    ELSE IF ~validate_index(d, start_index)
    THEN \* are_interleaved -> find_indices_of_xo(axis, a) -> get_row / get_col
         Result(d, "InvalidIndex")
    ELSE IF start_index = get_size(d)
    THEN \* validate_index accepts a = N; get_row / get_col read out of range,
         \* and find_indices_of_xo(axis, b) then rejects b = N + 1
         IF ub = "crash" THEN Result(d, "Crash")
         ELSE IF ~validate_index(d, start_index + 1) THEN Result(d, "InvalidIndex")
         ELSE Result(d, "Crash")
    ELSE IF ~are_interleaved(d, axis, start_index + 0, start_index + 1)
    THEN IF axis = "ROW"
         THEN Result(exchange_rows(d, start_index + 0, start_index + 1), "ok")
         ELSE Result(exchange_cols(d, start_index + 0, start_index + 1), "ok")
    ELSE Result(d, "Interleaved")

\* apply_stabilization that leaves the original entry where it was
apply_stabilization_KeepsEntry(d, cardinal, i, j) ==
    LET original_entry == d[i + 1][j + 1]
        west == cardinal \in {"NW", "SW"}
        d1 == [r \in 1..Len(d) |-> InsertAt(d[r], IF west THEN j + 1 ELSE j + 0, "BLANK")]
        blank_row == [c \in 1..Len(d1[1]) |-> "BLANK"]
        entry_double == original_entry
        entry_single == IF original_entry = "X" THEN "O" ELSE "X"
        extra_row == IF west
                     THEN SetAt(SetAt(blank_row, j + 0, entry_double), j + 1, entry_single)
                     ELSE SetAt(SetAt(blank_row, j + 0, entry_single), j + 1, entry_double)
    IN  IF original_entry = "BLANK"
        THEN Result(d, "NotFound")
        ELSE IF cardinal \in {"NW", "NE"}
        THEN Result(InsertAt(d1, i + 1, extra_row), "ok")
        ELSE Result(InsertAt(d1, i + 0, extra_row), "ok")

\* apply_stabilization that inserts the extra row at i + 1 for every corner
apply_stabilization_RowBelow(d, cardinal, i, j) ==
    LET original_entry == d[i + 1][j + 1]
        west == cardinal \in {"NW", "SW"}
        d1 == [r \in 1..Len(d) |-> InsertAt(d[r], IF west THEN j + 1 ELSE j + 0, "BLANK")]
        blank_row == [c \in 1..Len(d1[1]) |-> "BLANK"]
        entry_double == original_entry
        entry_single == IF original_entry = "X" THEN "O" ELSE "X"
        row_i == IF west
                 THEN SetAt(SetAt(d1[i + 1], j + 0, "BLANK"), j + 1, entry_double)
                 ELSE SetAt(SetAt(d1[i + 1], j + 0, entry_double), j + 1, "BLANK")
        d2 == [d1 EXCEPT ![i + 1] = row_i]
        extra_row == IF west
                     THEN SetAt(SetAt(blank_row, j + 0, entry_double), j + 1, entry_single)
                     ELSE SetAt(SetAt(blank_row, j + 0, entry_single), j + 1, entry_double)
    IN  IF original_entry = "BLANK"
        THEN Result(d, "NotFound")
        ELSE Result(InsertAt(d2, i + 1, extra_row), "ok")

apply_stabilization(d, cardinal, i, j) ==
    LET original_entry == d[i + 1][j + 1]
        \* the blank column: right of column j for NW / SW, left of it otherwise
        d1 == IF cardinal \in {"NW", "SW"}
              THEN [r \in 1..Len(d) |-> InsertAt(d[r], j + 1, "BLANK")]
              ELSE [r \in 1..Len(d) |-> InsertAt(d[r], j + 0, "BLANK")]
        blank_row == [c \in 1..Len(d1[1]) |-> "BLANK"]
        entry_double == original_entry
        entry_single == IF original_entry = "X" THEN "O" ELSE "X"
        west == cardinal \in {"NW", "SW"}
        \* data[i][j + 0] and data[i][j + 1]
        row_i == IF west
                 THEN SetAt(SetAt(d1[i + 1], j + 0, "BLANK"), j + 1, entry_double)
                 ELSE SetAt(SetAt(d1[i + 1], j + 0, entry_double), j + 1, "BLANK")
        d2 == [d1 EXCEPT ![i + 1] = row_i]
        \* extra_row[j + 0] and extra_row[j + 1]
        extra_row == IF west
                     THEN SetAt(SetAt(blank_row, j + 0, entry_double), j + 1, entry_single)
                     ELSE SetAt(SetAt(blank_row, j + 0, entry_single), j + 1, entry_double)
    IN  IF original_entry = "BLANK"
        THEN Result(d, "NotFound")
        ELSE IF cardinal \in {"NW", "NE"}
        THEN Result(InsertAt(d2, i + 1, extra_row), "ok")
        ELSE Result(InsertAt(d2, i + 0, extra_row), "ok")

\* The cells of the 2x2 subgrid in the order the counting loop visits them
SubgridOrder == <<<<0, 0>>, <<0, 1>>, <<1, 0>>, <<1, 1>>>>

CornerOf(si, sj) ==
    IF si = 0 /\ sj = 0 THEN "NW"
    ELSE IF si = 1 /\ sj = 0 THEN "SW"
    ELSE IF si = 0 /\ sj = 1 THEN "NE"
    ELSE "SE"

\* The counting loop of apply_destabilization: the counts of x, o and blank
\* cells, and the corner of the blank visited last (NW when there is none)
SubgridScan(d, i, j) ==
    LET cell(k) == d[i + SubgridOrder[k][1] + 1][j + SubgridOrder[k][2] + 1]
        blanks == {k \in 1..4 : cell(k) = "BLANK"}
        lastBlank == CHOOSE k \in blanks : \A m \in blanks : m <= k
    IN  [xs |-> Cardinality({k \in 1..4 : cell(k) = "X"}),
         os |-> Cardinality({k \in 1..4 : cell(k) = "O"}),
         blanks |-> Cardinality(blanks),
         cardinal |-> IF blanks = {} THEN "NW"
                      ELSE CornerOf(SubgridOrder[lastBlank][1], SubgridOrder[lastBlank][2])]

\* switch (cardinal) of apply_destabilization: write entry_double, erase one
\* row, erase one cell of every remaining row
\* The switch erasing column j + 0 for every corner
Flatten_SameColumn(d, i, j, cardinal, entry_double) ==
    LET wi == IF cardinal \in {"NW", "NE"} THEN i + 0 ELSE i + 1
        wj == IF cardinal \in {"NW", "SW"} THEN j + 0 ELSE j + 1
        ei == IF cardinal \in {"NW", "NE"} THEN i + 1 ELSE i + 0
        d1 == [d EXCEPT ![wi + 1] = SetAt(d[wi + 1], wj, entry_double)]
        d2 == EraseAt(d1, ei)
    IN  [r \in 1..Len(d2) |-> EraseAt(d2[r], j + 0)]

\* The switch erasing a cell of every row and no row
Flatten_KeepRow(d, i, j, cardinal, entry_double) ==
    LET wi == IF cardinal \in {"NW", "NE"} THEN i + 0 ELSE i + 1
        wj == IF cardinal \in {"NW", "SW"} THEN j + 0 ELSE j + 1
        ej == IF cardinal \in {"NW", "SW"} THEN j + 1 ELSE j + 0
        d1 == [d EXCEPT ![wi + 1] = SetAt(d[wi + 1], wj, entry_double)]
    IN  [r \in 1..Len(d1) |-> EraseAt(d1[r], ej)]

\* The switch writing entry_double diagonally opposite the blank and erasing
\* the row and the column of the blank
Flatten_WriteOpposite(d, i, j, cardinal, entry_double) ==
    LET wi == IF cardinal \in {"NW", "NE"} THEN i + 1 ELSE i + 0
        wj == IF cardinal \in {"NW", "SW"} THEN j + 1 ELSE j + 0
        ei == IF cardinal \in {"NW", "NE"} THEN i + 0 ELSE i + 1
        ej == IF cardinal \in {"NW", "SW"} THEN j + 0 ELSE j + 1
        d1 == [d EXCEPT ![wi + 1] = SetAt(d[wi + 1], wj, entry_double)]
        d2 == EraseAt(d1, ei)
    IN  [r \in 1..Len(d2) |-> EraseAt(d2[r], ej)]

Flatten(d, i, j, cardinal, entry_double) ==
    LET wi == IF cardinal \in {"NW", "NE"} THEN i + 0 ELSE i + 1
        wj == IF cardinal \in {"NW", "SW"} THEN j + 0 ELSE j + 1
        ei == IF cardinal \in {"NW", "NE"} THEN i + 1 ELSE i + 0
        ej == IF cardinal \in {"NW", "SW"} THEN j + 1 ELSE j + 0
        d1 == [d EXCEPT ![wi + 1] = SetAt(d[wi + 1], wj, entry_double)]
        d2 == EraseAt(d1, ei)
    IN  [r \in 1..Len(d2) |-> EraseAt(d2[r], ej)]

\* apply_destabilization without the branch for a doubled o
apply_destabilization_OnlyDoubleX(d, i, j) ==
    IF i >= get_size(d) - 1 \/ j >= get_size(d) - 1
    THEN Result(d, "OutOfBounds")
    ELSE LET scan == SubgridScan(d, i, j)
         IN  IF scan.xs = 2 /\ scan.os = 1 /\ scan.blanks = 1
             THEN Result(Flatten(d, i, j, scan.cardinal, "X"), "ok")
             ELSE Result(d, "InvalidSubgrid")

\* apply_destabilization that does not count the blank cells
apply_destabilization_NoBlankCount(d, i, j) ==
    IF i >= get_size(d) - 1 \/ j >= get_size(d) - 1
    THEN Result(d, "OutOfBounds")
    ELSE LET scan == SubgridScan(d, i, j)
         IN  IF scan.xs >= 1 /\ scan.os >= 1 /\ scan.xs >= scan.os
             THEN Result(Flatten(d, i, j, scan.cardinal, "X"), "ok")
             ELSE IF scan.xs >= 1 /\ scan.os >= 1
             THEN Result(Flatten(d, i, j, scan.cardinal, "O"), "ok")
             ELSE Result(d, "InvalidSubgrid")

apply_destabilization(d, i, j) ==
    IF i >= get_size(d) - 1 \/ j >= get_size(d) - 1
    THEN Result(d, "OutOfBounds")
    ELSE LET scan == SubgridScan(d, i, j)
         IN  IF scan.xs = 2 /\ scan.os = 1 /\ scan.blanks = 1
             THEN Result(Flatten(d, i, j, scan.cardinal, "X"), "ok")
             ELSE IF scan.xs = 1 /\ scan.os = 2 /\ scan.blanks = 1
             THEN Result(Flatten(d, i, j, scan.cardinal, "O"), "ok")
             ELSE Result(d, "InvalidSubgrid")

----------------------------------------------------------------------------
\* Diagrams the constructor accepts: one x and one o in every row and column

Perms(n) ==
    {p \in [1..n -> 1..n] : \A a, b \in 1..n : a # b => p[a] # p[b]}

GridOf(n, px, po) ==
    [r \in 1..n |-> [c \in 1..n |->
        IF px[r] = c THEN "X" ELSE IF po[r] = c THEN "O" ELSE "BLANK"]]

ValidGrids(n) ==
    {GridOf(n, px, po) : <<px, po>> \in
        {q \in Perms(n) \X Perms(n) : \A r \in 1..n : q[1][r] # q[2][r]}}

----------------------------------------------------------------------------
\* The state machine.  `data` is Diagram::data.  `last` is the call the
\* interface made in the current frame of the main loop (its arguments, the
\* grid it was applied to and what it raised), NoCall between two frames.

Call(op, a, b, c, pre, res) ==
    [op |-> op, a |-> a, b |-> b, c |-> c, pre |-> pre, res |-> res]

NoCall == Call("none", "-", 0, 0, <<>>, "ok")

\* `curve` is the curve of main.cpp, `built` the outcome of constructing a
\* Diagram from a table and `knot` the Knot of main.cpp.  The moves below act
\* on the diagram alone; the three are followed by the specifications of
\* their own (CurveSpec, ConstructSpec, KnotSpec) and rest here.
NoCurve == [status |-> "none"]

NotBuilt == [status |-> "none"]

NoKnot == [status |-> "none"]

\* The frame of the main loop, followed by AppSpec alone
NoApp == [pc |-> "none"]

rest == <<curve, built, knot, app>>

Init ==
    /\ data \in UNION {ValidGrids(n) : n \in 2..InitSize}
    /\ validate(data)
    /\ last = NoCall
    /\ curve = NoCurve
    /\ built = NotBuilt
    /\ knot = NoKnot
    /\ app = NoApp

\* The "Up" / "Down" / "Left" / "Right" buttons
Translate ==
    /\ last = NoCall
    /\ UNCHANGED rest
    /\ \E direction \in Direction :
        LET r == apply_translation(data, direction)
        IN  /\ data' = r.data
            /\ last' = Call("translate", direction, 0, 0, data, r.res)

\* "Operate" with the commutation selected
Commute ==
    /\ last = NoCall
    /\ UNCHANGED rest
    /\ \E axis \in Axis, start_index \in 0..(get_size(data) + 1) :
        \E ub \in (IF start_index = get_size(data) THEN OutOfRangeRead ELSE {"garbage"}) :
            LET r == apply_commutation(data, axis, start_index, ub)
            IN  /\ data' = r.data
                /\ last' = Call("commute", axis, start_index, 0, data, r.res)

\* "Operate" with the stabilization selected
Stabilize ==
    /\ last = NoCall
    /\ UNCHANGED rest
    /\ get_size(data) < MaxSize
    /\ \E cardinal \in Cardinal, i \in 0..(get_size(data) - 1), j \in 0..(get_size(data) - 1) :
        LET r == apply_stabilization(data, cardinal, i, j)
        IN  /\ data' = r.data
            /\ last' = Call("stabilize", cardinal, i, j, data, r.res)

\* "Operate" with the destabilization selected
Destabilize ==
    /\ last = NoCall
    /\ UNCHANGED rest
    /\ \E i \in 0..get_size(data), j \in 0..get_size(data) :
        LET r == apply_destabilization(data, i, j)
        IN  /\ data' = r.data
            /\ last' = Call("destabilize", "-", i, j, data, r.res)

\* The frame ends: the outcome has been pushed to the message history and the
\* interface accepts the next move.  The loop catches CromwellException only:
\* any other outcome ends the process.
EndFrame ==
    /\ last # NoCall
    /\ last.res \in {"ok"} \cup CromwellErrors
    /\ last' = NoCall
    /\ UNCHANGED <<data, rest>>

Next == Translate \/ Commute \/ Stabilize \/ Destabilize \/ EndFrame

Spec == Init /\ [][Next]_vars

----------------------------------------------------------------------------
\* Vocabulary of the properties (0-based rows and columns, as in the code)

Cell(d, r, c) == d[r + 1][c + 1]

Succeeded(op) == last.op = op /\ last.res = "ok"

\* The grid is square and every row and column holds one x and one o
WellFormed(d) ==
    /\ \A r \in 1..Len(d) : Len(d[r]) = Len(d)
    /\ \A k \in 1..Len(d) : \A e \in {"X", "O"} :
        /\ Cardinality({c \in 1..Len(d) : d[k][c] = e}) = 1
        /\ Cardinality({r \in 1..Len(d) : d[r][k] = e}) = 1

\* C1: whatever sequence of Translate, Commute, Stabilize and Destabilize
\* calls has been made, the grid is square and every row and every column
\* contains exactly one X and exactly one O.
C1_InvariantPreserved == WellFormed(data)

\* A destabilization has succeeded on a grid of the largest size
C1_Witness ==
    /\ Succeeded("destabilize")
    /\ Len(last.pre) = MaxSize
    /\ Len(data) = MaxSize - 1

\* C2: a Commute, Stabilize or Destabilize call that fails with a Cromwell
\* error leaves the grid cell-for-cell as it was before the call.
C2_FailureLeavesGrid ==
    (last.op \in {"commute", "stabilize", "destabilize"} /\ last.res \in CromwellErrors)
        => data = last.pre

\* A commutation of two interleaved columns has been rejected
C2_Witness ==
    /\ last.op = "commute"
    /\ last.a = "COL"
    /\ last.res = "Interleaved"

RECURSIVE TranslateTimes(_, _, _)
\* k successive apply_translation calls in one direction
TranslateTimes(d, direction, k) ==
    IF k = 0 THEN d
    ELSE TranslateTimes(apply_translation(d, direction).data, direction, k - 1)

\* C3 (as stated): after a Translate call, three more calls in the same
\* direction (four in all) restore the grid the first call was applied to.
C3_FourTranslations ==
    last.op = "translate" => TranslateTimes(data, last.a, 3) = last.pre

\* C3 (amended): after a Translate call on an N x N grid, N - 1 more calls in
\* the same direction (N in all) restore the grid the first was applied to;
\* four calls in all restore it exactly when N divides 4.
C3_SizeManyTranslations ==
    last.op = "translate"
        => /\ TranslateTimes(data, last.a, Len(data) - 1) = last.pre
           /\ (TranslateTimes(data, last.a, 3) = last.pre) <=> (4 % Len(data) = 0)

\* A translation has moved the cells of a 3 x 3 grid
C3_Witness ==
    /\ last.op = "translate"
    /\ Len(data) = 3
    /\ data # last.pre

\* C4: after a successful Commute(axis, index), a second Commute(axis, index)
\* succeeds as well and gives back the grid the first one was applied to.
C4_CommuteTwice ==
    Succeeded("commute")
        => LET r == apply_commutation(data, last.a, last.b, "garbage")
           IN  r.res = "ok" /\ r.data = last.pre

\* Two rows have been exchanged
C4_Witness ==
    /\ Succeeded("commute")
    /\ last.a = "ROW"
    /\ data # last.pre

\* C5: after a successful Stabilize(corner, i, j), Destabilize(i, j) succeeds
\* and gives back the N x N grid the stabilization was applied to.
C5_StabilizeDestabilize ==
    Succeeded("stabilize")
        => LET r == apply_destabilization(data, last.b, last.c)
           IN  r.res = "ok" /\ r.data = last.pre

\* A stabilization has enlarged a grid
C5_Witness ==
    /\ Succeeded("stabilize")
    /\ Len(data) = Len(last.pre) + 1

\* The 0-based span [min, max] between the x and the o of row (or column)
\* `index` of grid d
Line(d, axis, index) ==
    IF axis = "ROW" THEN d[index + 1] ELSE [r \in 1..Len(d) |-> d[r][index + 1]]

SpanOf(d, axis, index) ==
    LET at == {k \in 0..(Len(d) - 1) : Line(d, axis, index)[k + 1] # "BLANK"}
    IN  [lo |-> CHOOSE k \in at : \A m \in at : k <= m,
         hi |-> CHOOSE k \in at : \A m \in at : m <= k]

Disjoint(s, t) == s.hi < t.lo \/ t.hi < s.lo

\* One span within the other, shared endpoints allowed
Nested(s, t) == (t.lo <= s.lo /\ s.hi <= t.hi) \/ (s.lo <= t.lo /\ t.hi <= s.hi)

\* One span within the other with both endpoints strictly inside
StrictlyNested(s, t) == (t.lo < s.lo /\ s.hi < t.hi) \/ (s.lo < t.lo /\ t.hi < s.hi)

\* Grid d with rows (or columns) index and index + 1 exchanged
Exchanged(d, axis, index) ==
    LET other(k) == IF k = index + 1 THEN index + 2
                    ELSE IF k = index + 2 THEN index + 1 ELSE k
    IN  [r \in 1..Len(d) |-> [c \in 1..Len(d) |->
            IF axis = "ROW" THEN d[other(r)][c] ELSE d[r][other(c)]]]

\* C6 (as stated): Commute(axis, index) with index + 1 in range is rejected
\* as Interleaved exactly when the two spans overlap and neither contains the
\* other; disjoint spans and nested spans, shared endpoints included, are
\* exchanged.
C6_NestedOrDisjointCommute ==
    (last.op = "commute" /\ last.b + 1 < Len(last.pre))
        => LET s == SpanOf(last.pre, last.a, last.b)
               t == SpanOf(last.pre, last.a, last.b + 1)
           IN  IF Disjoint(s, t) \/ Nested(s, t)
               THEN last.res = "ok" /\ data = Exchanged(last.pre, last.a, last.b)
               ELSE last.res = "Interleaved"

\* C6 (amended): Commute(axis, index) with index + 1 in range exchanges the
\* two rows (or columns) exactly when their spans are disjoint or one lies
\* strictly inside the other; in every other case, spans that share an
\* endpoint included, the call is rejected as Interleaved.
C6_StrictlyNestedOrDisjointCommute ==
    (last.op = "commute" /\ last.b + 1 < Len(last.pre))
        => LET s == SpanOf(last.pre, last.a, last.b)
               t == SpanOf(last.pre, last.a, last.b + 1)
           IN  IF Disjoint(s, t) \/ StrictlyNested(s, t)
               THEN last.res = "ok" /\ data = Exchanged(last.pre, last.a, last.b)
               ELSE last.res = "Interleaved"

\* Two rows of which one span contains the other and shares an endpoint with
\* it have been rejected as interleaved
C6_Witness ==
    /\ last.op = "commute"
    /\ last.a = "ROW"
    /\ last.b + 1 < Len(last.pre)
    /\ last.res = "Interleaved"
    /\ Nested(SpanOf(last.pre, "ROW", last.b), SpanOf(last.pre, "ROW", last.b + 1))

\* C7: Commute(axis, index) fails with the NoAdjacent Cromwell error for
\* every index >= N - 1, and never reads outside the grid.
C7_NoAdjacentBeyondLast ==
    (last.op = "commute" /\ last.b >= Len(last.pre) - 1)
        => last.res = "NoAdjacent"

\* Where the new row and the new column of Stabilize(corner, i, j) lie
NewRow(corner, i) == IF corner \in {"NW", "NE"} THEN i + 1 ELSE i

NewCol(corner, j) == IF corner \in {"NW", "SW"} THEN j + 1 ELSE j

\* The cell (row offset, column offset) of a 2x2 block at a corner
CornerCell(corner) ==
    <<IF corner \in {"NW", "NE"} THEN 0 ELSE 1, IF corner \in {"NW", "SW"} THEN 0 ELSE 1>>

Opposite(e) == IF e = "X" THEN "O" ELSE "X"

\* Index k of a grid as it is after a row (or column) was inserted at `at`
Shifted(k, at) == IF k < at THEN k ELSE k + 1

\* C8: a successful Stabilize(corner, i, j) on an entry E of an N x N grid
\* gives an (N+1) x (N+1) grid whose 2x2 block at (i, j) has BLANK at the
\* corner, E beside and below (or above) it and the opposite entry diagonal
\* to it; the new column is right of column j for NW / SW and at j for
\* NE / SE, the new row below row i for NW / NE and at i for SW / SE; the rest
\* of the new row and column is BLANK and every other entry is kept.
C8_StabilizeLayout ==
    Succeeded("stabilize")
        => LET pre == last.pre
               n == Len(pre)
               i == last.b
               j == last.c
               e == Cell(pre, i, j)
               cc == CornerCell(last.a)
               nr == NewRow(last.a, i)
               nc == NewCol(last.a, j)
           IN  /\ e \in {"X", "O"}
               /\ Len(data) = n + 1
               /\ \A r \in 1..(n + 1) : Len(data[r]) = n + 1
               /\ Cell(data, i + cc[1], j + cc[2]) = "BLANK"
               /\ Cell(data, i + cc[1], j + 1 - cc[2]) = e
               /\ Cell(data, i + 1 - cc[1], j + cc[2]) = e
               /\ Cell(data, i + 1 - cc[1], j + 1 - cc[2]) = Opposite(e)
               /\ \A c \in 0..n : c \notin {j, j + 1} => Cell(data, nr, c) = "BLANK"
               /\ \A r \in 0..n : r \notin {i, i + 1} => Cell(data, r, nc) = "BLANK"
               /\ \A r, c \in 0..(n - 1) :
                    <<r, c>> # <<i, j>>
                        => Cell(data, Shifted(r, nr), Shifted(c, nc)) = Cell(pre, r, c)

\* An o inside a 3 x 3 grid has been stabilized with the blank at the SE corner
C8_Witness ==
    /\ Succeeded("stabilize")
    /\ last.a = "SE"
    /\ Len(last.pre) = 3
    /\ Cell(last.pre, last.b, last.c) = "O"
    /\ last.b = 1

\* The corner of the 2x2 block at (i, j) of d that holds its blank cell
BlankCorner(d, i, j) ==
    CHOOSE corner \in Cardinal :
        Cell(d, i + CornerCell(corner)[1], j + CornerCell(corner)[2]) = "BLANK"

\* The entry that occurs twice in the 2x2 block at (i, j) of d
Doubled(d, i, j) ==
    CHOOSE e \in {"X", "O"} :
        Cardinality({q \in {0, 1} \X {0, 1} : Cell(d, i + q[1], j + q[2]) = e}) = 2

\* Grid d with e written at (wr, wc) and then row dr and column dc deleted
WriteThenDelete(d, wr, wc, e, dr, dc) ==
    [r \in 1..(Len(d) - 1) |-> [c \in 1..(Len(d) - 1) |->
        LET sr == Shifted(r - 1, dr)
            sc == Shifted(c - 1, dc)
        IN  IF sr = wr /\ sc = wc THEN e ELSE Cell(d, sr, sc)]]

\* C9 (as stated): a successful Destabilize(i, j) writes the doubled entry
\* into the cell diagonally opposite the BLANK corner and deletes the row and
\* the column that contain the BLANK corner.
C9_WriteOppositeDeleteBlank ==
    Succeeded("destabilize")
        => LET i == last.b
               j == last.c
               cc == CornerCell(BlankCorner(last.pre, i, j))
           IN  data = WriteThenDelete(last.pre, i + 1 - cc[1], j + 1 - cc[2],
                                      Doubled(last.pre, i, j), i + cc[1], j + cc[2])

\* C9 (amended): a successful Destabilize(i, j) writes the doubled entry into
\* the BLANK corner of the 2x2 block and deletes the other row and the other
\* column of the block (those of the cell diagonally opposite the BLANK
\* corner), shrinking the grid from N to N - 1.
C9_WriteBlankDeleteOpposite ==
    Succeeded("destabilize")
        => LET i == last.b
               j == last.c
               cc == CornerCell(BlankCorner(last.pre, i, j))
           IN  /\ Len(data) = Len(last.pre) - 1
               /\ data = WriteThenDelete(last.pre, i + cc[1], j + cc[2],
                                          Doubled(last.pre, i, j),
                                          i + 1 - cc[1], j + 1 - cc[2])

\* A block with its blank at the SW corner has been flattened
C9_Witness ==
    /\ Succeeded("destabilize")
    /\ BlankCorner(last.pre, last.b, last.c) = "SW"
    /\ Len(data) = Len(last.pre) - 1

\* The entries of the 2x2 block at (i, j) of d that equal e
BlockCount(d, i, j, e) ==
    Cardinality({q \in {0, 1} \X {0, 1} : Cell(d, i + q[1], j + q[2]) = e})

\* C10: Destabilize(i, j) succeeds only when the four cells of the block
\* exist and hold one BLANK with two X and one O or one X and two O; in every
\* other case it fails with a Cromwell error and the grid is not changed.
C10_DestabilizePrecondition ==
    last.op = "destabilize"
        => LET pre == last.pre
               i == last.b
               j == last.c
               fits == i + 1 < Len(pre) /\ j + 1 < Len(pre)
               wellFilled ==
                   /\ BlockCount(pre, i, j, "BLANK") = 1
                   /\ \/ BlockCount(pre, i, j, "X") = 2 /\ BlockCount(pre, i, j, "O") = 1
                      \/ BlockCount(pre, i, j, "X") = 1 /\ BlockCount(pre, i, j, "O") = 2
           IN  IF fits /\ wellFilled
               THEN last.res = "ok"
               ELSE last.res \in CromwellErrors /\ data = last.pre

\* A block with two blank cells has been rejected
C10_Witness ==
    /\ last.op = "destabilize"
    /\ last.res = "InvalidSubgrid"
    /\ last.b + 1 < Len(last.pre)
    /\ last.c + 1 < Len(last.pre)
    /\ BlockCount(last.pre, last.b, last.c, "BLANK") = 2

----------------------------------------------------------------------------
\* Diagram::generate_curve.  A cell is named by its absolute index
\* i + j * size; a point by <<x, y, z>> in half units of the grid spacing
\* (get_coordinate gives x = j - size / 2, y = size / 2 - i, z = 0 or the
\* lift amount 1.0; the rounding of its float division is not followed).

\* Largest grid a curve is generated from
CurveSize == 4

convert_to_absolute_index(d, i, j) == i + j * get_size(d)

convert_to_grid_indices(d, absolute_index) ==
    <<absolute_index % get_size(d), absolute_index \div get_size(d)>>

\* The while loop of the traversal without the closing push_back(tie)
RECURSIVE Traverse_NoTie(_, _, _, _, _)

Traverse_NoTie(d, indices, e, traverse_horizontal, tie) ==
    LET next_index == IF traverse_horizontal
                      THEN find_index_of_first(d, "ROW", e, "X")
                      ELSE find_index_of_first(d, "COL", e, "O")
        absolute_index == IF traverse_horizontal
                          THEN convert_to_absolute_index(d, e, next_index)
                          ELSE convert_to_absolute_index(d, next_index, e)
    IN  IF Count(indices, absolute_index) = 0
        THEN Traverse_NoTie(d, Append(indices, absolute_index), next_index,
                            ~traverse_horizontal, tie)
        ELSE indices

\* The while loop of the traversal: `indices` so far, the row or column `e`
\* the walk stands on, and the direction of the next step
RECURSIVE Traverse(_, _, _, _, _)

Traverse(d, indices, e, traverse_horizontal, tie) ==
    LET next_index == IF traverse_horizontal
                      THEN find_index_of_first(d, "ROW", e, "X")
                      ELSE find_index_of_first(d, "COL", e, "O")
        absolute_index == IF traverse_horizontal
                          THEN convert_to_absolute_index(d, e, next_index)
                          ELSE convert_to_absolute_index(d, next_index, e)
    IN  IF Count(indices, absolute_index) = 0
        THEN Traverse(d, Append(indices, absolute_index), next_index,
                      ~traverse_horizontal, tie)
        ELSE Append(indices, tie)

\* The indices of the traversal, from the x of column 0 back to it
TraversalIndices(d) ==
    LET xo == find_indices_of_xo(d, "COL", 0)
        s == xo[1]
        e == xo[2]
    IN  Traverse(d, <<convert_to_absolute_index(d, s, 0),
                      convert_to_absolute_index(d, e, 0)>>, e, TRUE, s)

\* std::sort of a vector of pairs
PairLess(p, q) == p[1] < q[1] \/ (p[1] = q[1] /\ p[2] < q[2])

RECURSIVE SortPairs(_)

SortPairs(v) ==
    IF Len(v) <= 1 THEN v
    ELSE LET k == CHOOSE k \in 1..Len(v) :
                      \A m \in 1..Len(v) : ~PairLess(v[m], v[k])
         IN  <<v[k]>> \o SortPairs(SubSeq(v, 1, k - 1) \o SubSeq(v, k + 1, Len(v)))

\* std::reverse
Reverse(v) == [k \in 1..Len(v) |-> v[Len(v) + 1 - k]]

\* The chunk k (0-based) of a list of endpoints, smaller absolute index first
Chunk(v, k) == Ordered(<<v[2 * k + 1], v[2 * k + 2]>>)

\* The inner loop over the row chunks with <= and >= in its test: a row
\* chunk that only touches the column chunk counts as a crossing
Intersections_Touching(d, col_s, col_e, rows) ==
    LET cs == convert_to_grid_indices(d, col_s)
        ce == convert_to_grid_indices(d, col_e)
        Meets(j) ==
            LET row == Chunk(rows, j)
                rs == convert_to_grid_indices(d, row[1])
                re == convert_to_grid_indices(d, row[2])
            IN  cs[2] >= rs[2] /\ cs[2] <= re[2] /\ cs[1] <= rs[1] /\ ce[1] >= rs[1]
        Pair(j) ==
            LET rs == convert_to_grid_indices(d, Chunk(rows, j)[1])
            IN  <<rs[1], convert_to_absolute_index(d, rs[1], cs[2])>>
        hits == SelectSeq([j \in 1..(Len(rows) \div 2) |-> j - 1], Meets)
    IN  [k \in 1..Len(hits) |-> Pair(hits[k])]

\* The inner loop over the row chunks: the pairs <<row, absolute index>> of
\* the cells where the column chunk from col_s to col_e meets a row chunk,
\* in the order of the row chunks
Intersections(d, col_s, col_e, rows) ==
    LET cs == convert_to_grid_indices(d, col_s)
        ce == convert_to_grid_indices(d, col_e)
        Meets(j) ==
            LET row == Chunk(rows, j)
                rs == convert_to_grid_indices(d, row[1])
                re == convert_to_grid_indices(d, row[2])
            IN  cs[2] > rs[2] /\ cs[2] < re[2] /\ cs[1] < rs[1] /\ ce[1] > rs[1]
        Pair(j) ==
            LET rs == convert_to_grid_indices(d, Chunk(rows, j)[1])
            IN  <<rs[1], convert_to_absolute_index(d, rs[1], cs[2])>>
        hits == SelectSeq([j \in 1..(Len(rows) \div 2) |-> j - 1], Meets)
    IN  [k \in 1..Len(hits) |-> Pair(hits[k])]

\* The elements of v put after position `put` in the order they have in v
InsertAll_InOrder(indices, put, v) ==
    SubSeq(indices, 1, put + 1) \o v \o SubSeq(indices, put + 2, Len(indices))

\* indices.insert(indices.begin() + put + 1, ...) for every element of v in turn
RECURSIVE InsertAll(_, _, _)

InsertAll(indices, put, v) ==
    IF v = <<>> THEN indices
    ELSE InsertAll(InsertAt(indices, put + 1, Head(v)), put, Tail(v))

\* The outer loop over the column chunks, from chunk i on: every chunk adds
\* its crossings to `lifted` and inserts them after the first of its two
\* endpoints in `indices`
RECURSIVE InsertCrossings(_, _, _, _, _, _)

InsertCrossings(d, cols, rows, i, indices, lifted) ==
    IF i >= Len(cols) \div 2 THEN [indices |-> indices, lifted |-> lifted]
    ELSE
        LET oriented_upwards == cols[2 * i + 1] > cols[2 * i + 2]
            col == Chunk(cols, i)
            found == Intersections(d, col[1], col[2], rows)
            sorted == SortPairs(found)
            intersections == IF oriented_upwards THEN sorted ELSE Reverse(sorted)
            at == {k \in 1..Len(indices) : indices[k] = col[1] \/ indices[k] = col[2]}
            put == (CHOOSE k \in at : \A m \in at : k <= m) - 1
            inserted == IF at = {} THEN indices
                        ELSE InsertAll(indices, put,
                                 [k \in 1..Len(intersections) |-> intersections[k][2]])
        IN  InsertCrossings(d, cols, rows, i + 1, inserted,
                lifted \o [k \in 1..Len(found) |-> found[k][2]])

\* get_coordinate
get_coordinate(d, i, j, lift) ==
    <<2 * j - get_size(d), get_size(d) - 2 * i, IF lift THEN 2 ELSE 0>>

\* The filler loops started one value late
Between_StartLate(from, to) ==
    IF from > to THEN [m \in 1..(from - to - 2) |-> from - 1 - m]
    ELSE [m \in 1..(to - from - 2) |-> from + 1 + m]

\* The filler values strictly between `from` and `to`, walking from `from`
Between(from, to) ==
    IF from > to THEN [m \in 1..(from - to - 1) |-> from - m]
    ELSE [m \in 1..(to - from - 1) |-> from + m]

\* get_coordinate on every index at lift 0, whatever `lifted` holds
RECURSIVE Points_NoLift(_, _, _, _, _)

Points_NoLift(d, indices, lifted, k, points) ==
    IF k > Len(indices) THEN points
    ELSE
        LET cell == convert_to_grid_indices(d, indices[k])
            i == cell[1]
            j == cell[2]
            prev == IF k = 1 THEN <<-1, -1>> ELSE convert_to_grid_indices(d, indices[k - 1])
            fillers ==
                IF prev[1] = -1 THEN <<>>
                ELSE IF prev[1] = i
                THEN LET f == Between(prev[2], j)
                     IN  [m \in 1..Len(f) |-> get_coordinate(d, i, f[m], FALSE)]
                ELSE LET f == Between(prev[1], i)
                     IN  [m \in 1..Len(f) |-> get_coordinate(d, f[m], j, FALSE)]
        IN  Points_NoLift(d, indices, lifted, k + 1,
                points \o fillers \o <<get_coordinate(d, i, j, FALSE)>>)

\* The loop over `indices` from its element k (1-based) on: the filler
\* points between the previous cell and this one, then the point of this cell
RECURSIVE Points(_, _, _, _, _)

Points(d, indices, lifted, k, points) ==
    IF k > Len(indices) THEN points
    ELSE
        LET cell == convert_to_grid_indices(d, indices[k])
            i == cell[1]
            j == cell[2]
            prev == IF k = 1 THEN <<-1, -1>> ELSE convert_to_grid_indices(d, indices[k - 1])
            fillers ==
                IF prev[1] = -1 THEN <<>>
                ELSE IF prev[1] = i
                THEN LET f == Between(prev[2], j)
                     IN  [m \in 1..Len(f) |-> get_coordinate(d, i, f[m], FALSE)]
                ELSE LET f == Between(prev[1], i)
                     IN  [m \in 1..Len(f) |-> get_coordinate(d, f[m], j, FALSE)]
            lift == Count(lifted, indices[k]) > 0
        IN  Points(d, indices, lifted, k + 1,
                points \o fillers \o <<get_coordinate(d, i, j, lift)>>)

\* generate_curve: what it raises, the indices of the traversal, the indices
\* with the crossings inserted, the lifted indices and the points returned
generate_curve(d) ==
    LET raw == TraversalIndices(d)
        rows == Tail(raw)
        cols == SubSeq(raw, 1, Len(raw) - 1)
        crossed == InsertCrossings(d, cols, rows, 0, raw, <<>>)
        points == Points(d, crossed.indices, crossed.lifted, 1, <<>>)
    IN  IF Len(raw) # get_size(d) * 2 + 1
        THEN [status |-> "Error when constructing curve", raw |-> raw,
              indices |-> raw, lifted |-> <<>>, points |-> <<>>]
        ELSE [status |-> "ok", raw |-> raw, indices |-> crossed.indices,
              lifted |-> crossed.lifted,
              points |-> SubSeq(points, 1, Len(points) - 1)]

----------------------------------------------------------------------------
\* The curve of a diagram: main.cpp builds the diagram and calls
\* generate_curve on it.

\* The trefoil of the README
Trefoil ==
    <<<<"X", "BLANK", "O", "BLANK", "BLANK">>,
      <<"BLANK", "X", "BLANK", "O", "BLANK">>,
      <<"BLANK", "BLANK", "X", "BLANK", "O">>,
      <<"O", "BLANK", "BLANK", "X", "BLANK">>,
      <<"BLANK", "O", "BLANK", "BLANK", "X">>>>

CurveInit ==
    /\ data \in UNION {ValidGrids(n) : n \in 2..CurveSize} \cup {Trefoil}
    /\ validate(data)
    /\ last = NoCall
    /\ curve = NoCurve
    /\ built = NotBuilt
    /\ knot = NoKnot
    /\ app = NoApp

\* auto curve = diagram.generate_curve()
GenerateCurve ==
    /\ curve = NoCurve
    /\ curve' = generate_curve(data)
    /\ UNCHANGED <<data, last, built, knot, app>>

CurveNext == GenerateCurve

CurveSpec == CurveInit /\ [][CurveNext]_vars

\* generate_curve has been called on the diagram
Generated == curve # NoCurve

\* The column the walk reaches from column c: the column of the x in the row
\* of the o of column c
NextColumn(d, c) ==
    find_index_of_first(d, "ROW", find_index_of_first(d, "COL", c, "O"), "X")

\* The columns on the component of the link that passes through column 0
RECURSIVE ColumnsFrom(_, _)

ColumnsFrom(d, cs) ==
    LET more == cs \cup {NextColumn(d, c) : c \in cs}
    IN  IF more = cs THEN cs ELSE ColumnsFrom(d, more)

SingleComponent(d) == ColumnsFrom(d, {0}) = 0..(get_size(d) - 1)

\* C11: on every diagram with one x and one o in every row and column the
\* traversal of generate_curve yields exactly 2N+1 absolute indices, the last
\* repeating the first.
C11_EveryDiagramTraversed ==
    Generated =>
        /\ Len(curve.raw) = 2 * get_size(data) + 1
        /\ curve.raw[Len(curve.raw)] = curve.raw[1]

\* The cells strictly inside the span of their row and of their column
CrossingCells(d) ==
    {convert_to_absolute_index(d, r, c) : <<r, c>> \in
        {q \in (0..(get_size(d) - 1)) \X (0..(get_size(d) - 1)) :
            /\ SpanOf(d, "ROW", q[1]).lo < q[2]
            /\ q[2] < SpanOf(d, "ROW", q[1]).hi
            /\ SpanOf(d, "COL", q[2]).lo < q[1]
            /\ q[1] < SpanOf(d, "COL", q[2]).hi}}

Elements(v) == {v[k] : k \in 1..Len(v)}

IsCrossing(x) == x \in CrossingCells(data)

IsCorner(x) == x \notin CrossingCells(data)

\* C12: when generate_curve inserts the crossings, the indices it inserts
\* into the traversal are exactly the cells strictly inside the span of their
\* row and the span of their column; each is inserted once and is in
\* `lifted`, and the sequence has 2N+1 entries plus one per crossing.
C12_CrossingsInserted ==
    curve.status = "ok" =>
        /\ Elements(curve.indices) \ Elements(curve.raw) = CrossingCells(data)
        /\ Elements(curve.lifted) = CrossingCells(data)
        /\ \A x \in CrossingCells(data) :
               Count(curve.indices, x) = 1 /\ Count(curve.lifted, x) = 1
        /\ SelectSeq(curve.indices, IsCorner) = curve.raw
        /\ Len(curve.indices) =
               2 * get_size(data) + 1 + Cardinality(CrossingCells(data))

\* Crossings have been inserted into two different columns of a diagram
C12_Witness ==
    /\ curve.status = "ok"
    /\ Cardinality(CrossingCells(data)) >= 2
    /\ Cardinality({x \div get_size(data) : x \in Elements(curve.lifted)}) >= 2

\* C13: on the trefoil of the README the traversal has 11 indices and
\* generate_curve inserts exactly 2 crossings, 13 indices in all.
C13_TrefoilTwoCrossings ==
    (data = Trefoil /\ Generated) =>
        /\ Len(curve.raw) = 11
        /\ Len(curve.lifted) = 2
        /\ Len(curve.indices) = 13

\* C13 (amended): on the trefoil of the README the traversal has 11 indices
\* and generate_curve inserts exactly 3 crossings, the cells (3, 1), (1, 2)
\* and (2, 3), 14 indices in all.
C13_TrefoilThreeCrossings ==
    (data = Trefoil /\ Generated) =>
        /\ curve.status = "ok"
        /\ Len(curve.raw) = 11
        /\ Len(curve.lifted) = 3
        /\ Elements(curve.lifted) = {3 + 1 * 5, 1 + 2 * 5, 2 + 3 * 5}
        /\ Len(curve.indices) = 14

\* The curve of the trefoil has been generated
C13_Witness == data = Trefoil /\ curve.status = "ok"

\* The segment k (1-based) of a closed curve, from point k to the next one
SegmentOf(points, k) == <<points[k], points[(k % Len(points)) + 1]>>

\* Two points that are the same cell or neighbouring cells of the grid, at
\* any height
Neighbouring(p, q) ==
    LET dx == IF p[1] > q[1] THEN p[1] - q[1] ELSE q[1] - p[1]
        dy == IF p[2] > q[2] THEN p[2] - q[2] ELSE q[2] - p[2]
    IN  dx + dy = 2

\* The two ends and the middle of a segment.  Two segments that each join
\* neighbouring cells at height 0 or 2 have a common point exactly when they
\* have one among these.
Marks(seg) ==
    {seg[1], seg[2],
     <<(seg[1][1] + seg[2][1]) \div 2, (seg[1][2] + seg[2][2]) \div 2,
       (seg[1][3] + seg[2][3]) \div 2>>}

Intersect(s, t) == Marks(s) \cap Marks(t) # {}

\* The segments k and m of a closed curve of n points share an endpoint
AdjacentSegments(n, k, m) == k = m \/ (k % n) + 1 = m \/ (m % n) + 1 = k

\* The points before and after point k of a closed curve
Before(points, k) == points[IF k = 1 THEN Len(points) ELSE k - 1]

After(points, k) == points[(k % Len(points)) + 1]

\* C14: the curve generate_curve returns for a single-component diagram is
\* made of segments between neighbouring cells, no two non-adjacent ones
\* having a common point; where a column strand and a row strand pass
\* through the same cell the vertex of the column is at the lifted height and
\* the vertex of the row at height 0, and no other two vertices coincide in
\* the plane.
C14_NoSelfIntersection ==
    curve.status = "ok" =>
        LET points == curve.points
            n == Len(points)
        IN  /\ \A k \in 1..n : Neighbouring(points[k], After(points, k))
            /\ \A k, m \in 1..n :
                   ~AdjacentSegments(n, k, m) =>
                       ~Intersect(SegmentOf(points, k), SegmentOf(points, m))
            /\ \A k, m \in 1..n :
                   (k # m /\ points[k][1] = points[m][1]
                          /\ points[k][2] = points[m][2]) =>
                       \E col, row \in {k, m} :
                           /\ col # row
                           /\ points[col][3] = 2
                           /\ Before(points, col)[1] = points[col][1]
                           /\ After(points, col)[1] = points[col][1]
                           /\ points[row][3] = 0
                           /\ Before(points, row)[2] = points[row][2]
                           /\ After(points, row)[2] = points[row][2]
            /\ \A x \in CrossingCells(data) :
                   LET cell == convert_to_grid_indices(data, x)
                   IN  \E k, m \in 1..n :
                           /\ points[k] = get_coordinate(data, cell[1], cell[2], TRUE)
                           /\ points[m] = get_coordinate(data, cell[1], cell[2], FALSE)

\* A curve with a column strand that is lifted over two rows in a row
C14_Witness ==
    /\ curve.status = "ok"
    /\ \E k \in 1..Len(curve.points) :
           /\ curve.points[k][3] = 2
           /\ After(curve.points, k)[3] = 2

----------------------------------------------------------------------------
\* Diagram::Diagram(from_data): data{ from_data }, then validate().  The
\* table may have rows of any length; get_col(i) reads row[i] of every row
\* unchecked, so a row of length i or less is read out of range: the read
\* ends the process or yields some entry (`ub`, `fill`).

\* Largest number of rows, and of entries in a row, of a table
TableSize == 2

\* validate from its iteration i on: "ok", the exception, or "Crash"
RECURSIVE ValidateFrom(_, _, _, _)

ValidateFrom(table, i, ub, fill) ==
    IF i >= Len(table) THEN "ok"
    ELSE
        LET row == table[i + 1]
            out_of_range == \E r \in 1..Len(table) : Len(table[r]) <= i
            col == [r \in 1..Len(table) |->
                       IF Len(table[r]) <= i THEN fill ELSE table[r][i + 1]]
        IN  IF out_of_range /\ ub = "crash" THEN "Crash"
            ELSE IF \/ Len(row) # Len(table)
                    \/ Len(col) # Len(table)
                    \/ Count(row, "X") # 1
                    \/ Count(row, "O") # 1
                    \/ Count(col, "X") # 1
                    \/ Count(col, "O") # 1
            THEN "InvalidGrid"
            ELSE ValidateFrom(table, i + 1, ub, fill)

\* The tables handed to the constructor
Rows == UNION {[1..k -> Entry] : k \in 0..TableSize}

Tables == UNION {[1..k -> Rows] : k \in 0..TableSize}

ConstructInit ==
    /\ data = <<>>
    /\ last = NoCall
    /\ curve = NoCurve
    /\ knot = NoKnot
    /\ app = NoApp
    /\ built \in {[status |-> "called", from_data |-> t] : t \in Tables}

\* knot::Diagram{ from_data }
Construct ==
    /\ built.status = "called"
    /\ \E ub \in OutOfRangeRead, fill \in Entry :
        LET r == ValidateFrom(built.from_data, 0, ub, fill)
        IN  /\ built' = [built EXCEPT !.status = r]
            /\ data' = IF r = "ok" THEN built.from_data ELSE data
    /\ UNCHANGED <<last, curve, knot, app>>

ConstructNext == Construct

ConstructSpec == ConstructInit /\ [][ConstructNext]_vars

\* C19: the constructor fails with the structural error whenever the table is
\* not square or a row or column does not hold exactly one x and one o, and
\* builds the diagram of the table otherwise.
C19_ConstructorValidates ==
    built.status \notin {"none", "called"} =>
        IF WellFormed(built.from_data)
        THEN built.status = "ok" /\ data = built.from_data
        ELSE built.status = "InvalidGrid"

----------------------------------------------------------------------------
\* glm::vec3 and geom::Segment.  A float is kept as an integer number of
\* lattice units, Unit of them to the grid spacing; a quotient is cut towards
\* zero where the float would be rounded.  The two parameters sc and tc of
\* shortest_distance_between are kept in Fraction-ths.

Unit == 16

Fraction == 64

Quot(a, b) == IF a >= 0 THEN a \div b ELSE -((-a) \div b)

Abs(a) == IF a >= 0 THEN a ELSE -a

VAdd(p, q) == <<p[1] + q[1], p[2] + q[2], p[3] + q[3]>>

VSub(p, q) == <<p[1] - q[1], p[2] - q[2], p[3] - q[3]>>

VScale(p, f) == <<p[1] * f, p[2] * f, p[3] * f>>

VQuot(p, f) == <<Quot(p[1], f), Quot(p[2], f), Quot(p[3], f)>>

Zero == <<0, 0, 0>>

dot(p, q) == p[1] * q[1] + p[2] * q[2] + p[3] * q[3]

\* The square root, rounded down
RECURSIVE SqrtFrom(_, _)

SqrtFrom(x, r) ==
    LET next == (r + x \div r) \div 2
    IN  IF next >= r THEN r ELSE SqrtFrom(x, next)

\* (the first guess x / 32 + 16 is never below the root)
Sqrt(x) == IF x = 0 THEN 0 ELSE SqrtFrom(x, x \div 32 + 16)

\* glm::length, rounded down
length(p) == Sqrt(dot(p, p))

\* The literal 0.001f, for a value in lattice units to the power `dim`: the
\* least integer that is not below it
Small(dim) == IF dim = 4 THEN (Unit * Unit * Unit * Unit) \div 1000 + 1 ELSE 1

\* Segment::shortest_distance_between, the closest points of the two lines:
\* the numerators and denominators of sc and tc, and the power of the
\* lattice unit each numerator is measured in
ClosestOnLines(a, b, c, d, e, D) ==
    IF D < Small(4)
    THEN [sN |-> 0, sD |-> 1, sdim |-> 0, tN |-> e, tD |-> c, tdim |-> 2]
    ELSE IF b * e - c * d < 0
    THEN [sN |-> 0, sD |-> D, sdim |-> 4, tN |-> e, tD |-> c, tdim |-> 2]
    ELSE IF b * e - c * d > D
    THEN [sN |-> D, sD |-> D, sdim |-> 4, tN |-> e + b, tD |-> c, tdim |-> 2]
    ELSE [sN |-> b * e - c * d, sD |-> D, sdim |-> 4,
          tN |-> a * e - b * d, tD |-> D, tdim |-> 4]

\* Segment::shortest_distance_between, tc kept within the second segment
ClampedToEnds(lines, a, b, d) ==
    IF lines.tN < 0
    THEN IF -d < 0 THEN [lines EXCEPT !.tN = 0, !.sN = 0]
         ELSE IF -d > a THEN [lines EXCEPT !.tN = 0, !.sN = lines.sD]
         ELSE [lines EXCEPT !.tN = 0, !.sN = -d, !.sD = a, !.sdim = 2]
    ELSE IF lines.tN > lines.tD
    THEN IF -d + b < 0 THEN [lines EXCEPT !.tN = lines.tD, !.sN = 0]
         ELSE IF -d + b > a THEN [lines EXCEPT !.tN = lines.tD, !.sN = lines.sD]
         ELSE [lines EXCEPT !.tN = lines.tD, !.sN = -d + b, !.sD = a, !.sdim = 2]
    ELSE lines

\* abs(N) < 0.001f ? 0 : N / D, in Fraction-ths
Parameter(N, D, dim) ==
    IF Abs(N) < Small(dim) THEN 0 ELSE Quot(N * Fraction, D)

\* w + sc * u - tc * v, times Fraction
Difference(u, v, w, sc, tc) ==
    VSub(VAdd(VScale(w, Fraction), VScale(u, sc)), VScale(v, tc))

\* Segment::shortest_distance_between, times Fraction
shortest_distance_between(seg, other) ==
    LET Closest(u, v, w, ends) ==
            Difference(u, v, w, Parameter(ends.sN, ends.sD, ends.sdim),
                                Parameter(ends.tN, ends.tD, ends.tdim))
        Clamp(u, v, w, a, b, c, d, e) ==
            Closest(u, v, w,
                    ClampedToEnds(ClosestOnLines(a, b, c, d, e, a * c - b * b),
                                  a, b, d))
        Dots(u, v, w) ==
            Clamp(u, v, w, dot(u, u), dot(u, v), dot(v, v), dot(u, w), dot(v, w))
    IN  Dots(VSub(seg[2], seg[1]), VSub(other[2], other[1]),
             VSub(seg[1], other[1]))

\* glm::length(seg.shortest_distance_between(other)) < distance
Closer(seg, other, distance) ==
    LET Shorter(closest) ==
            /\ \A k \in 1..3 : Abs(closest[k]) < distance * Fraction
            /\ dot(closest, closest) < (distance * Fraction) * (distance * Fraction)
    IN  Shorter(shortest_distance_between(seg, other))

----------------------------------------------------------------------------
\* geom::PolygonalCurve: its vertices, a sequence of points

get_number_of_vertices(vertices) == Len(vertices)

get_wrapped_index(vertices, index) ==
    (index + get_number_of_vertices(vertices)) % get_number_of_vertices(vertices)

get_neighboring_indices_wrapped(vertices, center_index) ==
    LET wrapped_index == get_wrapped_index(vertices, center_index)
        n == get_number_of_vertices(vertices)
    IN  <<IF wrapped_index = 0 THEN n - 1 ELSE wrapped_index - 1,
          IF wrapped_index = n - 1 THEN 0 ELSE wrapped_index + 1>>

get_segment(vertices, index) ==
    <<vertices[get_wrapped_index(vertices, index) + 1],
      vertices[get_wrapped_index(vertices, index + 1) + 1]>>

----------------------------------------------------------------------------
\* knot::SimulationParams, knot::Bead and knot::Knot.  Lengths are in lattice
\* units; damping and anchor_weight are fractions <<numerator, denominator>>;
\* beta and alpha are whole numbers.

\* SimulationParams with the K of the slider of main.cpp.  The step d_max
\* and epsilon are the least whole numbers of lattice units the fixed point
\* can move a bead by: d_max is two units (ten times the default) and
\* epsilon one unit.
Params(k) ==
    [d_max |-> 2, d_close |-> 8, mass |-> 1, damping |-> <<3, 10>>,
     anchor_weight |-> <<0, 2>>, beta |-> 1, h |-> 1, alpha |-> 4, k |-> k,
     epsilon |-> 1]

\* v, `times` times multiplied by num / den
RECURSIVE TimesRatio(_, _, _, _)

TimesRatio(v, times, num, den) ==
    IF times = 0 \/ v = Zero THEN v
    ELSE TimesRatio(VQuot(VScale(v, num), den), times - 1, num, den)

\* normalize(direction) * h * powf(r, 1 + beta)
Spring(direction, r, params) ==
    TimesRatio(VScale(direction, params.h), params.beta, r, Unit)

\* normalize(direction) * k * powf(r, -(2 + alpha))
Repulsion(direction, r, params) ==
    TimesRatio(VScale(direction, params.k), 3 + params.alpha, Unit, r)

Bead(position, index, neighbor_l_index, neighbor_r_index) ==
    [prev_position |-> position, position |-> position, velocity |-> Zero,
     acceleration |-> Zero, index |-> index,
     neighbor_l_index |-> neighbor_l_index,
     neighbor_r_index |-> neighbor_r_index, is_stuck |-> FALSE]

are_neighbors(bead, other) ==
    bead.index = other.neighbor_l_index \/ bead.index = other.neighbor_r_index

\* operator== of two beads
SameBead(a, b) ==
    /\ a.index = b.index
    /\ a.neighbor_l_index = b.neighbor_l_index
    /\ a.neighbor_r_index = b.neighbor_r_index

\* Bead::apply_forces.  The length that divides the velocity is rounded up,
\* so that the step is no longer than d_max.
\* apply_forces without the limit on the step
Clamped_NoLimit(velocity, speed, floor, d_max) == velocity

Clamped(velocity, speed, floor, d_max) ==
    IF speed > d_max * d_max
    THEN VQuot(VScale(velocity, d_max),
               IF floor * floor = speed THEN floor ELSE floor + 1)
    ELSE velocity

apply_forces(bead, force, params) ==
    LET Move(velocity, speed) ==
            [bead EXCEPT !.acceleration = Zero,
                         !.velocity = velocity,
                         !.prev_position = bead.position,
                         !.position = VAdd(bead.position,
                             Clamped(velocity, speed, Sqrt(speed), params.d_max))]
        Integrate(velocity) == Move(velocity, dot(velocity, velocity))
        Accelerate(acceleration) ==
            Integrate(VQuot(VScale(VAdd(bead.velocity, acceleration),
                                   params.damping[1]), params.damping[2]))
    IN  Accelerate(VAdd(bead.acceleration, VQuot(force, params.mass)))

\* What `other` adds to the force on `bead`, r being their distance
Term(bead, other, r, params) ==
    IF SameBead(other, bead) THEN Zero
    ELSE IF r < params.epsilon THEN Zero
    ELSE IF are_neighbors(bead, other)
    THEN Spring(VSub(other.position, bead.position), r, params)
    ELSE Repulsion(VSub(bead.position, other.position), r, params)

\* The inner loop of relax over `other`, from the bead at position m of
\* `beads` on: the force on `bead`
RECURSIVE ForceFrom(_, _, _, _, _)

ForceFrom(beads, params, bead, m, force) ==
    IF m > Len(beads) THEN force
    ELSE ForceFrom(beads, params, bead, m + 1,
                   VAdd(force, Term(bead, beads[m],
                                    length(VSub(beads[m].position, bead.position)),
                                    params)))

\* The anchor force of relax
AnchorPull(direction, r, params) ==
    IF r > params.epsilon
    THEN VQuot(VScale(Spring(direction, r, params), params.anchor_weight[1]),
               params.anchor_weight[2])
    ELSE Zero

AnchorForce(anchors, params, bead) ==
    LET Pull(direction) == AnchorPull(direction, length(direction), params)
    IN  Pull(VSub(anchors[bead.index + 1], bead.position))

\* The force relax sums for `bead` from the positions held in `beads`
Force(beads, anchors, params, bead, use_anchors) ==
    VAdd(ForceFrom(beads, params, bead, 1, Zero),
         IF use_anchors THEN AnchorForce(anchors, params, bead) ELSE Zero)

\* The segments compared when the index before the left neighbour is not
\* wrapped
Compared_NoWrap(vertices, bead) ==
    {segment_index \in 0..(get_number_of_vertices(vertices) - 1) :
        /\ segment_index # bead.neighbor_l_index
        /\ segment_index # bead.index
        /\ segment_index # bead.neighbor_l_index - 1
        /\ segment_index # get_wrapped_index(vertices, bead.neighbor_r_index)}

\* The segments relax compares with the two segments at `bead`
Compared(vertices, bead) ==
    {segment_index \in 0..(get_number_of_vertices(vertices) - 1) :
        /\ segment_index # bead.neighbor_l_index
        /\ segment_index # bead.index
        /\ segment_index # get_wrapped_index(vertices, bead.neighbor_l_index - 1)
        /\ segment_index # get_wrapped_index(vertices, bead.neighbor_r_index)}

\* The test of relax on the segments at `bead`, measured on `vertices`
TooClose(vertices, bead, params) ==
    LET Near(segment_l, segment_r, other) ==
            \/ Closer(segment_l, other, params.d_close)
            \/ Closer(segment_r, other, params.d_close)
        Guard(segment_l, segment_r) ==
            \E segment_index \in Compared(vertices, bead) :
                Near(segment_l, segment_r, get_segment(vertices, segment_index))
    IN  Guard(get_segment(vertices, bead.neighbor_l_index),
              get_segment(vertices, bead.index))

\* std::vector of bead.position / bead.is_stuck
gather_position_data(beads) == [m \in 1..Len(beads) |-> beads[m].position]

get_stuck(kn) == [m \in 1..Len(kn.beads) |-> IF kn.beads[m].is_stuck THEN 1 ELSE 0]

\* Knot::Knot(curve, params)
Knot(vertices, params) ==
    [status |-> "ok", rope |-> vertices, anchors |-> vertices, params |-> params,
     beads |-> [m \in 1..get_number_of_vertices(vertices) |->
                   LET lr == get_neighboring_indices_wrapped(vertices, m - 1)
                   IN  Bead(vertices[m], m - 1, lr[1], lr[2])]]

\* The body of the loop of relax when a stuck bead is left as it is
RelaxBead_StuckStays(kn, use_anchors, m, done) ==
    IF done.beads[m].is_stuck
    THEN [beads |-> done.beads,
          forces |-> Append(done.forces, Zero),
          moved |-> Append(done.moved, done.beads[m].position)]
    ELSE LET Keep(force, integrated, bead) ==
                 [beads |-> [done.beads EXCEPT ![m] = bead],
                  forces |-> Append(done.forces, force),
                  moved |-> Append(done.moved, integrated.position)]
             Test(force, integrated) ==
                 Keep(force, integrated,
                      IF TooClose(kn.rope, integrated, kn.params)
                      THEN [integrated EXCEPT !.position = integrated.prev_position,
                                              !.is_stuck = TRUE]
                      ELSE [integrated EXCEPT !.is_stuck = FALSE])
             Apply(force) ==
                 Test(force, apply_forces(done.beads[m], force, kn.params))
         IN  Apply(Force(done.beads, kn.anchors, kn.params, done.beads[m],
                         use_anchors))

\* The body of the loop of relax for the bead at position m: `done` holds
\* the beads as the loop has left them so far, the force summed for every
\* earlier bead and the position apply_forces gave it
RelaxBead(kn, use_anchors, m, done) ==
    LET Keep(force, integrated, bead) ==
            [beads |-> [done.beads EXCEPT ![m] = bead],
             forces |-> Append(done.forces, force),
             moved |-> Append(done.moved, integrated.position)]
        Test(force, integrated) ==
            Keep(force, integrated,
                 IF TooClose(kn.rope, integrated, kn.params)
                 THEN [integrated EXCEPT !.position = integrated.prev_position,
                                         !.is_stuck = TRUE]
                 ELSE [integrated EXCEPT !.is_stuck = FALSE])
        Apply(force) ==
            Test(force, apply_forces(done.beads[m], force, kn.params))
    IN  Apply(Force(done.beads, kn.anchors, kn.params, done.beads[m],
                    use_anchors))

\* The loop of relax over the beads, from the bead at position m on
RECURSIVE RelaxFrom(_, _, _, _)

RelaxFrom(kn, use_anchors, m, done) ==
    IF m > Len(done.beads) THEN done
    ELSE RelaxFrom(kn, use_anchors, m + 1, RelaxBead(kn, use_anchors, m, done))

\* Knot::relax without its last line, rope.set_vertices
relax_NoSetVertices(kn, use_anchors) ==
    LET Write(done) ==
            [knot |-> [kn EXCEPT !.beads = done.beads],
             forces |-> done.forces, moved |-> done.moved]
    IN  Write(RelaxFrom(kn, use_anchors, 1,
                        [beads |-> kn.beads, forces |-> <<>>, moved |-> <<>>]))

\* Knot::relax: the knot after the call, with the force summed for every
\* bead and the position apply_forces gave it
relax(kn, use_anchors) ==
    LET Write(done) ==
            [knot |-> [kn EXCEPT !.beads = done.beads,
                                 !.rope = gather_position_data(done.beads)],
             forces |-> done.forces, moved |-> done.moved]
    IN  Write(RelaxFrom(kn, use_anchors, 1,
                        [beads |-> kn.beads, forces |-> <<>>, moved |-> <<>>]))

\* Knot::reset that brings the beads to rest as well
reset_ZeroVelocity(kn) ==
    [kn EXCEPT !.rope = kn.anchors,
               !.beads = [m \in 1..Len(kn.beads) |->
                   [kn.beads[m] EXCEPT !.position = kn.anchors[m],
                                       !.prev_position = kn.anchors[m],
                                       !.velocity = Zero,
                                       !.is_stuck = FALSE]]]

\* Knot::reset without the line that clears is_stuck
reset_KeepStuck(kn) ==
    [kn EXCEPT !.rope = kn.anchors,
               !.beads = [m \in 1..Len(kn.beads) |->
                   [kn.beads[m] EXCEPT !.position = kn.anchors[m]]]]

\* Knot::reset
reset(kn) ==
    [kn EXCEPT !.rope = kn.anchors,
               !.beads = [m \in 1..Len(kn.beads) |->
                   [kn.beads[m] EXCEPT !.position = kn.anchors[m],
                                       !.is_stuck = FALSE]]]

----------------------------------------------------------------------------
\* The knot of main.cpp: built from the curve of the diagram, then relaxed
\* once a frame and reset on request.  `last` is the call made on the knot:
\* the knot before it in `pre`, and for relax the force summed for every
\* bead in `b` and the position apply_forces gave every bead in `c`.
\* kn.relaxed counts the calls of relax made so far, kn.events the uses of
\* the simulation panel (the Reset button and the K slider).

\* Largest grid a knot is built from, and most beads of a knot
KnotSize == 3

MaxBeads == 8

\* Most relax calls made on one knot, and most uses of the simulation panel
MaxRelax == 8

MaxEvents == 1

\* The points of generate_curve as vertices in lattice units
ToLattice(points) == [m \in 1..Len(points) |-> VScale(points[m], Unit \div 2)]

Counted(kn, relaxed, events) ==
    [status |-> kn.status, rope |-> kn.rope, anchors |-> kn.anchors,
     params |-> kn.params, beads |-> kn.beads,
     relaxed |-> relaxed, events |-> events]

\* A knot as constructed from the curve of a diagram, with K at the low end
\* of its slider; the slider gives the other value
KnotInit ==
    /\ data \in UNION {ValidGrids(n) : n \in 2..KnotSize}
    /\ validate(data)
    /\ last = NoCall
    /\ built = NotBuilt
    /\ curve = generate_curve(data)
    /\ curve.status = "ok"
    /\ Len(curve.points) <= MaxBeads
    /\ knot = Counted(Knot(ToLattice(curve.points), Params(0)), 0, 0)
    /\ app = NoApp

\* knot.relax(): every call of main.cpp leaves use_anchors at its default
Relax ==
    /\ knot.relaxed < MaxRelax
    /\ \E use_anchors \in {TRUE} :
        \E r \in {relax(knot, use_anchors)} :
            /\ knot' = Counted(r.knot, knot.relaxed + 1, knot.events)
            /\ last' = Call("relax", use_anchors, r.forces, r.moved, knot, "ok")
    /\ UNCHANGED <<data, curve, built, app>>

\* The "Reset" button: knot.reset()
Reset ==
    /\ knot.events < MaxEvents
    /\ knot' = Counted(reset(knot), knot.relaxed, knot.events + 1)
    /\ last' = Call("reset", "-", 0, 0, knot, "ok")
    /\ UNCHANGED <<data, curve, built, app>>

\* The "K" slider: knot.get_simulation_params().k = k
SlideK ==
    /\ knot.events < MaxEvents
    /\ \E k \in {0, 1} \ {knot.params.k} :
        /\ knot' = Counted([knot EXCEPT !.params.k = k],
                           knot.relaxed, knot.events + 1)
        /\ last' = Call("slide", k, 0, 0, knot, "ok")
    /\ UNCHANGED <<data, curve, built, app>>

KnotNext == Relax \/ Reset \/ SlideK

KnotSpec == KnotInit /\ [][KnotNext]_vars

----------------------------------------------------------------------------
\* The knot after its calls

Built == knot.status = "ok"

Relaxed == Built /\ last.op = "relax"

WasReset == Built /\ last.op = "reset"

Beads(kn) == 1..Len(kn.beads)

C18_ResetRestoresAnchors ==
    WasReset =>
        /\ knot.rope = knot.anchors
        /\ Len(knot.beads) = Len(last.pre.beads)
        /\ \A m \in Beads(knot) :
            /\ knot.beads[m].position = knot.anchors[m]
            /\ ~knot.beads[m].is_stuck
            /\ knot.beads[m].index = last.pre.beads[m].index
            /\ knot.beads[m].neighbor_l_index = last.pre.beads[m].neighbor_l_index
            /\ knot.beads[m].neighbor_r_index = last.pre.beads[m].neighbor_r_index
        /\ knot.anchors = last.pre.anchors
        /\ knot.params = last.pre.params

\* a reset of a knot with a stuck bead and a bead off its anchor
C18_Witness ==
    /\ WasReset
    /\ \E m \in Beads(last.pre) : last.pre.beads[m].is_stuck
    /\ \E m \in Beads(last.pre) :
        last.pre.beads[m].position # last.pre.anchors[m]

\* The segments of `vertices` that share no vertex, two by two
NonAdjacent(vertices) ==
    {pair \in (0..(Len(vertices) - 1)) \X (0..(Len(vertices) - 1)) :
        /\ pair[1] < pair[2]
        /\ pair[2] # get_wrapped_index(vertices, pair[1] + 1)
        /\ pair[1] # get_wrapped_index(vertices, pair[2] + 1)}

\* No two segments of `vertices` that share no vertex are closer than
\* `distance`
Clear(vertices, distance) ==
    \A pair \in NonAdjacent(vertices) :
        ~Closer(get_segment(vertices, pair[1]), get_segment(vertices, pair[2]),
                distance)

\* C15: a knot built from a curve whose non-adjacent segments are d_close
\* apart or more keeps, after every relax, every two non-adjacent segments
\* of its rope d_close - epsilon apart or more
C15_ClearanceKept ==
    (Relaxed /\ Clear(knot.anchors, knot.params.d_close)) =>
        Clear(knot.rope, knot.params.d_close - knot.params.epsilon)

\* C16: the force relax sums for a bead is the force of the positions all
\* beads had before the call
C16_ForcesFromPreStep ==
    Relaxed =>
        \A m \in Beads(knot) :
            last.b[m] = Force(last.pre.beads, last.pre.anchors, last.pre.params,
                              last.pre.beads[m], last.a)

\* The curve as the loop of relax has it when it tests bead m: the beads
\* before m where the loop left them, bead m where apply_forces put it, the
\* beads after m where they were before the call
PartialCurve(m) ==
    [j \in Beads(knot) |->
        IF j < m THEN knot.beads[j].position
        ELSE IF j = m THEN last.c[m]
        ELSE last.pre.beads[j].position]

\* C17: relax flags bead m stuck exactly when the segments at m are too
\* close to another segment on the partly updated curve
C17_GuardOnPartialCurve ==
    Relaxed =>
        \A m \in Beads(knot) :
            knot.beads[m].is_stuck <=>
                TooClose(PartialCurve(m), knot.beads[m], knot.params)

----------------------------------------------------------------------------
\* The order of the crossings and the vertices of the curve

RowOf(x) == convert_to_grid_indices(data, x)[1]

ColOf(x) == convert_to_grid_indices(data, x)[2]

\* The first position of x in v, and its first position after position p
First(v, x) == CHOOSE k \in 1..Len(v) : v[k] = x /\ \A m \in 1..(k - 1) : v[m] # x

FirstAfter(v, x, p) ==
    CHOOSE k \in (p + 1)..Len(v) : v[k] = x /\ \A m \in (p + 1)..(k - 1) : v[m] # x

\* The indices generate_curve leaves between the two endpoints of the
\* column chunk c (0-based) of the traversal
Inside(c) ==
    LET p == First(curve.indices, curve.raw[2 * c + 1])
        q == FirstAfter(curve.indices, curve.raw[2 * c + 2], p)
    IN  SubSeq(curve.indices, p + 1, q - 1)

\* The column chunk c is walked towards the larger rows
Downwards(c) == RowOf(curve.raw[2 * c + 1]) < RowOf(curve.raw[2 * c + 2])

\* C22: the crossings of a column stand together between the two endpoints
\* of the column, right after the endpoint the traversal visits first, in
\* the order the traversal passes them: by increasing row when the column is
\* walked from a smaller to a larger row, by decreasing row otherwise
C22_CrossingsInTraversalOrder ==
    curve.status = "ok" =>
        \A c \in 0..(get_size(data) - 1) :
            LET s == curve.raw[2 * c + 1]
                e == curve.raw[2 * c + 2]
                inside == Inside(c)
            IN  /\ ColOf(s) = ColOf(e)
                /\ Elements(inside) =
                       {x \in CrossingCells(data) : ColOf(x) = ColOf(s)}
                /\ \A k \in 1..(Len(inside) - 1) :
                       IF Downwards(c)
                       THEN RowOf(inside[k]) < RowOf(inside[k + 1])
                       ELSE RowOf(inside[k]) > RowOf(inside[k + 1])

\* a column with two crossings or more, and a column with a crossing that
\* is walked the other way
C22_Witness ==
    /\ curve.status = "ok"
    /\ \E c, b \in 0..(get_size(data) - 1) :
           /\ Len(Inside(c)) >= 2
           /\ Len(Inside(b)) >= 1
           /\ Downwards(c) # Downwards(b)

Lifted(p) == p[3] = 2

\* The vertex of a cell that generate_curve lifted
LiftedVertex(x) == get_coordinate(data, RowOf(x), ColOf(x), TRUE)

\* C23: in the curve generate_curve returns for a single-component diagram
\* every vertex and the next one (the first after the last) are in cells one
\* unit apart along the row or along the column, no filler vertex is lifted
\* (the lifted vertices are the vertices of the lifted indices and no
\* others), and the first and the last vertex are in different cells
C23_UnitSteps ==
    curve.status = "ok" =>
        LET points == curve.points
            n == Len(points)
            crossings == SelectSeq(curve.indices, IsCrossing)
        IN  /\ \A k \in 1..n : Neighbouring(points[k], After(points, k))
            /\ SelectSeq(points, Lifted) =
                   [k \in 1..Len(crossings) |-> LiftedVertex(crossings[k])]
            /\ <<points[1][1], points[1][2]>> # <<points[n][1], points[n][2]>>

\* a curve with filler vertices, one of them under a lifted vertex
C23_Witness ==
    /\ curve.status = "ok"
    /\ Len(curve.points) > Len(curve.indices) - 1
    /\ \E k, m \in 1..Len(curve.points) :
           /\ ~Lifted(curve.points[k]) /\ Lifted(curve.points[m])
           /\ curve.points[m][1] = curve.points[k][1]
           /\ curve.points[m][2] = curve.points[k][2]

----------------------------------------------------------------------------
\* The beads one by one in a call of relax

\* Bead m as apply_forces leaves it in the call of relax recorded in `last`
Integrated(m) == apply_forces(last.pre.beads[m], last.b[m], last.pre.params)

\* The guard of relax fires for bead m in the call recorded in `last`
GuardFired(m) == TooClose(last.pre.rope, last.pre.beads[m], last.pre.params)

\* C24: after relax a bead is stuck exactly when the guard fired for it in
\* that call, whatever its flag was before; stuck or not before, the force
\* on it was integrated into its velocity and the move was made before the
\* guard was asked
C24_StuckReevaluated ==
    Relaxed =>
        \A m \in Beads(knot) :
            LET Agrees(integrated, fired) ==
                    /\ knot.beads[m].is_stuck <=> fired
                    /\ knot.beads[m].velocity = integrated.velocity
                    /\ last.c[m] = integrated.position
                    /\ knot.beads[m].position =
                           IF fired THEN last.pre.beads[m].position
                           ELSE integrated.position
            IN  Agrees(Integrated(m), GuardFired(m))

\* a bead that was stuck moves and is free after the call
C24_Witness ==
    /\ Relaxed
    /\ \E m \in Beads(knot) :
           /\ last.pre.beads[m].is_stuck
           /\ ~knot.beads[m].is_stuck
           /\ knot.beads[m].position # last.pre.beads[m].position

\* C25: in a call of relax no bead ends farther than d_max from where it
\* was before the call, and a bead that ends stuck is where it was, which is
\* its prev_position
C25_StepBounded ==
    Relaxed =>
        \A m \in Beads(knot) :
            LET step == VSub(knot.beads[m].position, last.pre.beads[m].position)
            IN  /\ dot(step, step) <= knot.params.d_max * knot.params.d_max
                /\ knot.beads[m].prev_position = last.pre.beads[m].position
                /\ knot.beads[m].is_stuck =>
                       /\ step = Zero
                       /\ knot.beads[m].position = knot.beads[m].prev_position

\* a call in which a bead faster than d_max moved and another ended stuck
C25_Witness ==
    /\ Relaxed
    /\ \E m \in Beads(knot) :
           /\ dot(knot.beads[m].velocity, knot.beads[m].velocity)
                  > knot.params.d_max * knot.params.d_max
           /\ knot.beads[m].position # last.pre.beads[m].position
    /\ \E m \in Beads(knot) : knot.beads[m].is_stuck

\* The two vertices of the segment with index s
EndsOf(vertices, s) == {s, get_wrapped_index(vertices, s + 1)}

\* The segments that share no vertex with the two segments at `bead`
ApartFrom(vertices, bead) ==
    {s \in 0..(get_number_of_vertices(vertices) - 1) :
        /\ EndsOf(vertices, s) \cap EndsOf(vertices, bead.neighbor_l_index) = {}
        /\ EndsOf(vertices, s) \cap EndsOf(vertices, bead.index) = {}}

\* C26: on a rope of n >= 5 vertices the guard compares the two segments at
\* a bead with the n - 4 segments that share no vertex with either of them,
\* and with no other, for every bead, the beads 0 and 1 included
C26_ComparedSegments ==
    (Built /\ Len(knot.rope) >= 5) =>
        \A m \in Beads(knot) :
            /\ Compared(knot.rope, knot.beads[m]) = ApartFrom(knot.rope, knot.beads[m])
            /\ Cardinality(Compared(knot.rope, knot.beads[m])) = Len(knot.rope) - 4
            /\ Compared(knot.rope, knot.beads[m]) =
                   (0..(Len(knot.rope) - 1)) \
                       {get_wrapped_index(knot.rope, knot.beads[m].neighbor_l_index - 1),
                        knot.beads[m].neighbor_l_index, knot.beads[m].index,
                        knot.beads[m].neighbor_r_index}

\* a rope of five vertices or more on which the guard has fired
C26_Witness ==
    /\ Relaxed
    /\ Len(knot.rope) >= 5
    /\ \E m \in Beads(knot) : knot.beads[m].is_stuck

----------------------------------------------------------------------------
\* The indices the read operations accept

\* C27: validate_index rejects every index >= N, so a call that goes through
\* get_row or get_col with such an index ends with "Invalid index" and has
\* read nothing outside the grid
C27_InvalidIndexFromSize ==
    (last.op = "commute" /\ last.b >= Len(last.pre))
        => /\ ~validate_index(last.pre, last.b)
           /\ last.res = "InvalidIndex"

----------------------------------------------------------------------------
\* The traversal of the grids reached by the moves

Moves == {"translate", "commute", "stabilize", "destabilize"}

\* The traversal of generate_curve passes the count check on d
FullyTraversed(d) == Len(TraversalIndices(d)) = 2 * get_size(d) + 1

\* C28: a successful move on a grid whose traversal yields 2N+1 indices gives
\* a grid with one x and one o in every row and column whose traversal
\* yields 2N'+1 indices for its own size N', so generate_curve does not
\* fail on it
C28_TraversalKept ==
    (last.op \in Moves /\ last.res = "ok" /\ FullyTraversed(last.pre))
        => /\ WellFormed(data)
           /\ FullyTraversed(data)
           /\ generate_curve(data).status = "ok"

\* A destabilization and a stabilization of a fully traversed grid
C28_Witness ==
    /\ last.op \in {"stabilize", "destabilize"}
    /\ last.res = "ok"
    /\ get_size(last.pre) >= 3
    /\ FullyTraversed(last.pre)
    /\ FullyTraversed(data)

\* C29: a translation and a commutation leave the size of the grid as it
\* was, a successful stabilization adds one to it and a successful
\* destabilization takes one from it; a destabilization of a 2 x 2 grid
\* fails, and the size is never below 2
C29_SizeSteps ==
    /\ get_size(data) >= 2
    /\ last.op \in {"translate", "commute"}
           => get_size(data) = get_size(last.pre)
    /\ last.op \in {"stabilize", "destabilize"} /\ last.res # "ok"
           => get_size(data) = get_size(last.pre)
    /\ Succeeded("stabilize") => get_size(data) = get_size(last.pre) + 1
    /\ Succeeded("destabilize") => get_size(data) = get_size(last.pre) - 1
    /\ last.op = "destabilize" /\ get_size(last.pre) = 2
           => last.res \in {"OutOfBounds", "InvalidSubgrid"}

\* The whole of a 2 x 2 grid was offered for destabilization
C29_Witness ==
    /\ last.op = "destabilize"
    /\ get_size(last.pre) = 2
    /\ last.b = 0
    /\ last.c = 0
    /\ last.res = "InvalidSubgrid"
    /\ data = last.pre

----------------------------------------------------------------------------
\* What reset leaves of the motion

\* C30: reset leaves the velocity and prev_position of every bead as they
\* were, so the relax that follows integrates the force into the velocity
\* the bead had before the reset
C30_ResetKeepsVelocity ==
    WasReset =>
        LET Follows(next) ==
                \A m \in Beads(knot) :
                    next.knot.beads[m].velocity =
                        apply_forces(last.pre.beads[m], next.forces[m],
                                     knot.params).velocity
        IN  /\ \A m \in Beads(knot) :
                   /\ knot.beads[m].velocity = last.pre.beads[m].velocity
                   /\ knot.beads[m].prev_position = last.pre.beads[m].prev_position
            /\ Follows(relax(knot, TRUE))

\* A moving knot was reset, and the relax that follows does not give the
\* beads that the first relax of a newly constructed knot gives
C30_Witness ==
    /\ WasReset
    /\ \E m \in Beads(knot) : knot.beads[m].velocity # Zero
    /\ \E m \in Beads(knot) : knot.beads[m].prev_position # knot.anchors[m]
    /\ relax(knot, TRUE).knot.beads
           # relax(Knot(knot.anchors, knot.params), TRUE).knot.beads

----------------------------------------------------------------------------
\* The main loop of main.cpp.  A frame draws the interface, where at most
\* one button is pressed (pc "ui"), rebuilds the curve and the knot when
\* topology_needs_update was set (pc "update") and runs the simulation step
\* (pc "simulate").  `last` is the button pressed in the frame, with the
\* diagram, the curve and the knot it found in `pre`.  An exception the loop
\* does not catch ends the process (pc "ended").

\* Most frames followed
MaxFrames == 2

warmup_iterations == 3

\* for (i = 0; i < iterations; i++) knot.relax()
RECURSIVE Warmed(_, _)

Warmed(kn, iterations) ==
    IF iterations = 0 THEN kn
    ELSE Warmed(Counted(relax(kn, TRUE).knot, kn.relaxed + 1, kn.events),
                iterations - 1)

\* knot::Knot{ curve }, with the default SimulationParams
NewKnot(c) == Counted(Knot(ToLattice(c.points), Params(1)), 0, 0)

\* The diagrams followed: those of size up to KnotSize whose curve has no
\* more than MaxBeads vertices
Explored(d) ==
    /\ get_size(d) <= KnotSize
    /\ Len(generate_curve(d).points) <= MaxBeads

\* The diagrams of the .csv files found at startup
AvailableDiagrams ==
    {d \in UNION {ValidGrids(n) : n \in 2..KnotSize} : Explored(d)}

Frame(pc, simulation_active, topology_needs_update, frames) ==
    [pc |-> pc, simulation_active |-> simulation_active,
     topology_needs_update |-> topology_needs_update, frames |-> frames]

Pre == [data |-> data, curve |-> curve, knot |-> knot]

AppInit ==
    /\ data \in AvailableDiagrams
    /\ validate(data)
    /\ last = NoCall
    /\ built = NotBuilt
    /\ curve = generate_curve(data)
    /\ curve.status = "ok"
    /\ knot = Warmed(NewKnot(curve), warmup_iterations)
    /\ app = Frame("ui", FALSE, FALSE, 0)

\* A button is pressed in the frame
Pressed == app.pc = "ui" /\ app.frames < MaxFrames

\* The frame after a move: topology_needs_update is set when the move
\* returned, a CromwellException is caught and reported, and any other
\* outcome leaves the loop
AfterMove(res) ==
    Frame(IF res \in {"ok"} \cup CromwellErrors THEN "update" ELSE "ended",
          app.simulation_active, res = "ok", app.frames)

\* No button is pressed
AppIdle ==
    /\ Pressed
    /\ last' = Call("idle", "-", 0, 0, Pre, "ok")
    /\ app' = [app EXCEPT !.pc = "update"]
    /\ UNCHANGED <<data, curve, built, knot>>

\* A file is selected in "Grid Diagram File"
AppLoad ==
    /\ Pressed
    /\ \E d \in AvailableDiagrams :
        /\ data' = d
        /\ last' = Call("load", "-", 0, 0, Pre, "ok")
    /\ app' = AfterMove("ok")
    /\ UNCHANGED <<curve, built, knot>>

\* The "Simulation Active" checkbox
AppToggle ==
    /\ Pressed
    /\ last' = Call("toggle", "-", 0, 0, Pre, "ok")
    /\ app' = [app EXCEPT !.pc = "update",
                          !.simulation_active = ~app.simulation_active]
    /\ UNCHANGED <<data, curve, built, knot>>

\* The "Reset Simulation" button
AppReset ==
    /\ Pressed
    /\ last' = Call("reset", "-", 0, 0, Pre, "ok")
    /\ knot' = Counted(reset(knot), knot.relaxed, knot.events + 1)
    /\ app' = [app EXCEPT !.pc = "update"]
    /\ UNCHANGED <<data, curve, built>>

\* The "Up" / "Down" / "Left" / "Right" buttons
AppTranslate ==
    /\ Pressed
    /\ \E direction \in Direction :
        \E r \in {apply_translation(data, direction)} :
            /\ Explored(r.data)
            /\ data' = r.data
            /\ last' = Call("translate", direction, 0, 0, Pre, r.res)
            /\ app' = AfterMove(r.res)
    /\ UNCHANGED <<curve, built, knot>>

\* "Operate" with the commutation selected; the index is the one the slider
\* holds, which a destabilization may have left one past its range
AppCommute ==
    /\ Pressed
    /\ \E axis \in Axis, start_index \in 0..get_size(data) :
        \E ub \in (IF start_index = get_size(data) THEN OutOfRangeRead ELSE {"garbage"}) :
            \E r \in {apply_commutation(data, axis, start_index, ub)} :
                /\ Explored(r.data)
                /\ data' = r.data
                /\ last' = Call("commute", axis, start_index, 0, Pre, r.res)
                /\ app' = AfterMove(r.res)
    /\ UNCHANGED <<curve, built, knot>>

\* "Operate" with the stabilization selected
AppStabilize ==
    /\ Pressed
    /\ get_size(data) < KnotSize
    /\ \E cardinal \in Cardinal, i \in 0..(get_size(data) - 1), j \in 0..(get_size(data) - 1) :
        \E r \in {apply_stabilization(data, cardinal, i, j)} :
            /\ Explored(r.data)
            /\ data' = r.data
            /\ last' = Call("stabilize", cardinal, i, j, Pre, r.res)
            /\ app' = AfterMove(r.res)
    /\ UNCHANGED <<curve, built, knot>>

\* "Operate" with the destabilization selected; the indices are those the
\* sliders hold, at most one past their range
AppDestabilize ==
    /\ Pressed
    /\ \E i \in 0..(get_size(data) - 1), j \in 0..(get_size(data) - 1) :
        \E r \in {apply_destabilization(data, i, j)} :
            /\ Explored(r.data)
            /\ data' = r.data
            /\ last' = Call("destabilize", "-", i, j, Pre, r.res)
            /\ app' = AfterMove(r.res)
    /\ UNCHANGED <<curve, built, knot>>

\* The update that rebuilds the curve and keeps the knot
AppUpdate_KeepsKnot ==
    /\ app.pc = "update"
    /\ curve' = IF app.topology_needs_update THEN generate_curve(data) ELSE curve
    /\ app' = [app EXCEPT !.pc = "simulate"]
    /\ UNCHANGED <<data, last, built, knot>>

\* if (topology_needs_update): the curve and the knot are rebuilt, and the
\* knot is warmed up when the simulation is not running
AppUpdate ==
    /\ app.pc = "update"
    /\ IF app.topology_needs_update
       THEN \E c \in {generate_curve(data)} :
               /\ curve' = c
               /\ IF c.status = "ok"
                  THEN /\ knot' = IF app.simulation_active THEN NewKnot(c)
                                  ELSE Warmed(NewKnot(c), warmup_iterations)
                       /\ app' = [app EXCEPT !.pc = "simulate"]
                  ELSE /\ knot' = knot
                       /\ app' = [app EXCEPT !.pc = "ended"]
       ELSE /\ app' = [app EXCEPT !.pc = "simulate"]
            /\ UNCHANGED <<curve, knot>>
    /\ UNCHANGED <<data, last, built>>

\* if (simulation_active) knot.relax(), and the frame is over
AppSimulate ==
    /\ app.pc = "simulate"
    /\ knot' = IF app.simulation_active
               THEN Counted(relax(knot, TRUE).knot, knot.relaxed + 1, knot.events)
               ELSE knot
    /\ last' = NoCall
    /\ app' = Frame("ui", app.simulation_active, FALSE, app.frames + 1)
    /\ UNCHANGED <<data, curve, built>>

AppNext ==
    \/ AppIdle \/ AppLoad \/ AppToggle \/ AppReset
    \/ AppTranslate \/ AppCommute \/ AppStabilize \/ AppDestabilize
    \/ AppUpdate \/ AppSimulate

AppSpec == AppInit /\ [][AppNext]_vars

----------------------------------------------------------------------------
\* The knot the simulation step works on

\* The curve and the anchors of the knot are those of the diagram
Current ==
    /\ curve = generate_curve(data)
    /\ knot.anchors = ToLattice(curve.points)
    /\ Len(knot.beads) = Len(curve.points)

\* The knot was constructed in this frame
NewlyBuilt ==
    /\ knot.events = 0
    /\ knot.relaxed = IF app.simulation_active THEN 0 ELSE warmup_iterations
    /\ app.simulation_active => knot = NewKnot(curve)

MoveMade == last.op \in Moves \cup {"load"}

\* C21: when the simulation step of a frame is reached, and between frames,
\* the curve is the one extracted from the diagram as it is and the knot is
\* the one built from that curve; after a move that succeeded or a reload
\* the knot is one constructed in that frame; after a move that failed with
\* a Cromwell error the curve and the knot are those the move found
C21_RelaxOnCurrentKnot ==
    /\ app.pc \in {"simulate", "ui"} => Current
    /\ app.pc = "simulate" /\ MoveMade /\ last.res = "ok" => NewlyBuilt
    /\ app.pc \in {"update", "simulate"} /\ MoveMade /\ last.res \in CromwellErrors
           => /\ ~app.topology_needs_update
              /\ data = last.pre.data
              /\ curve = last.pre.curve
              /\ knot = last.pre.knot

\* The simulation step is reached while the simulation runs, after a move
\* that changed the number of vertices of the curve
C21_Witness ==
    /\ app.pc = "simulate"
    /\ app.simulation_active
    /\ last.op \in Moves
    /\ last.res = "ok"
    /\ Len(curve.points) # Len(last.pre.curve.points)
    /\ last.pre.knot.relaxed > warmup_iterations

====
